---------------------------- MODULE Spec2Model ----------------------------
(***************************************************************************)
(* Model of the Memos sync plugin (src/main.ts): the paginated fetch of    *)
(* memo records, the derivation of local paths, the download of resources, *)
(* the rendering and upsert of one document per memo, and the sync runs    *)
(* that the ribbon icon and the interval timer start.                      *)
(*                                                                         *)
(* Strings are sequences of one-character strings; a document is kept as   *)
(* the sequence of the parts appended to it, which DocumentText expands.   *)
(* A path is a sequence of segments (the string split at '/').  An action  *)
(* is the code                                                             *)
(* between two awaits of one run: the awaited I/O takes effect and the     *)
(* synchronous code up to the next await runs.                             *)
(***************************************************************************)
EXTENDS Integers, Sequences, FiniteSets, TLC

(***************************************************************************)
(* Bounds of the model.                                                    *)
(***************************************************************************)
MaxRuns == 2          \* sync invocations (ribbon clicks and timer ticks)
MaxLimit == 2         \* settings.syncLimit ranges over 1..MaxLimit
MaxMemos == 2         \* records in the remote collection
MaxChanges == 1       \* changes of the remote state during a behaviour
MaxPageCap == 2       \* the largest page the remote service returns
MaxDepth == 3         \* segments of a path given to getRelativePath
MaxInterval == 3      \* settings.autoSyncInterval ranges over 1..MaxInterval minutes
MaxMinutes == 6       \* minutes the interval timer is followed after onload

(***************************************************************************)
(* Program constants.                                                      *)
(***************************************************************************)
pageSize == 100       \* main.ts:85
PreviewLen == 50      \* main.ts:274, memo.content.slice(0, 50)

Min(a, b) == IF a < b THEN a ELSE b

(***************************************************************************)
(* Strings.                                                                *)
(***************************************************************************)
Whitespace == {" ", "\n", "\t"}
UnsafeChars == {"\\", "/", ":", "*", "?", "\"", "<", ">", "|", "#"}

RECURSIVE CollapseSpaces(_)
\* .replace(/\s+/g, ' '): every maximal run of whitespace becomes one space
CollapseSpaces(s) ==
    IF s = <<>> THEN <<>>
    ELSE IF Head(s) \in Whitespace
         THEN IF Len(s) > 1 /\ s[2] \in Whitespace
              THEN CollapseSpaces(Tail(s))
              ELSE <<" ">> \o CollapseSpaces(Tail(s))
         ELSE <<Head(s)>> \o CollapseSpaces(Tail(s))

RECURSIVE TrimStart(_)
TrimStart(s) ==
    IF s # <<>> /\ Head(s) \in Whitespace THEN TrimStart(Tail(s)) ELSE s

RECURSIVE TrimEnd(_)
TrimEnd(s) ==
    IF s # <<>> /\ s[Len(s)] \in Whitespace
    THEN TrimEnd(SubSeq(s, 1, Len(s) - 1)) ELSE s

Trim(s) == TrimEnd(TrimStart(s))

\* .replace(/[\\/:*?"<>|#]/g, '_')
ReplaceUnsafe(s) == [n \in 1..Len(s) |-> IF s[n] \in UnsafeChars THEN "_" ELSE s[n]]

\* a variant of sanitizeFileName that replaces no character
KeepUnsafe(fileName) == Trim(CollapseSpaces(fileName))

sanitizeFileName(fileName) == Trim(CollapseSpaces(ReplaceUnsafe(fileName)))

\* s.slice(0, n)
Slice0(s, n) == SubSeq(s, 1, Min(n, Len(s)))

RECURSIVE LastPart(_, _)
\* s.split(sep).pop()
LastPart(s, sep) ==
    IF \E n \in 1..Len(s) : s[n] = sep
    THEN LastPart(Tail(s), sep)
    ELSE s

UpperCase == <<"A", "B", "C", "D", "E", "F", "G", "H", "I", "J", "K", "L", "M",
               "N", "O", "P", "Q", "R", "S", "T", "U", "V", "W", "X", "Y", "Z">>
LowerCase == <<"a", "b", "c", "d", "e", "f", "g", "h", "i", "j", "k", "l", "m",
               "n", "o", "p", "q", "r", "s", "t", "u", "v", "w", "x", "y", "z">>

\* s.toLowerCase()
toLowerCase(s) ==
    [n \in 1..Len(s) |->
        IF \E u \in 1..26 : UpperCase[u] = s[n]
        THEN LowerCase[CHOOSE u \in 1..26 : UpperCase[u] = s[n]]
        ELSE s[n]]

RECURSIVE Join(_, _)
\* parts.join(sep), sep a string
Join(parts, sep) ==
    IF parts = <<>> THEN <<>>
    ELSE IF Len(parts) = 1 THEN parts[1]
    ELSE parts[1] \o sep \o Join(Tail(parts), sep)

IsPrefix(p, s) == Len(p) <= Len(s) /\ SubSeq(s, 1, Len(p)) = p

RECURSIVE RemoveFirst(_, _)
\* s.replace(pat, ''): the first occurrence of the string pat is removed
RemoveFirst(s, pat) ==
    IF IsPrefix(pat, s) THEN SubSeq(s, Len(pat) + 1, Len(s))
    ELSE IF s = <<>> THEN <<>>
    ELSE <<Head(s)>> \o RemoveFirst(Tail(s), pat)

Digits == <<"0", "1", "2", "3", "4", "5", "6", "7", "8", "9">>

RECURSIVE Decimal(_)
\* String(n) of a natural number
Decimal(n) ==
    IF n < 10 THEN <<Digits[n + 1]>>
    ELSE Decimal(n \div 10) \o <<Digits[(n % 10) + 1]>>

\* String(n).padStart(2, '0')
Pad2(n) == IF Len(Decimal(n)) < 2 THEN <<"0">> \o Decimal(n) ELSE Decimal(n)

(***************************************************************************)
(* Dates: new Date(createTime) read through its local-time getters.        *)
(***************************************************************************)
Date(y, mo, d, h, mi, s) ==
    [year |-> y, month |-> mo, day |-> d, hours |-> h, minutes |-> mi, seconds |-> s]

\* Date.getTime(): seconds since 1970 on a calendar of 31-day months, which
\* orders dates as the epoch time does
getTime(date) ==
    (((((date.year - 1970) * 12 + (date.month - 1)) * 31 + (date.day - 1)) * 24
        + date.hours) * 60 + date.minutes) * 60 + date.seconds

formatDateTime(date, format) ==
    LET ymd == Decimal(date.year) \o <<"-">> \o Pad2(date.month) \o <<"-">> \o Pad2(date.day)
    IN  IF format = "filename"
        THEN ymd \o <<" ">> \o Pad2(date.hours) \o <<"-">> \o Pad2(date.minutes)
        ELSE ymd \o <<" ">> \o Pad2(date.hours) \o <<":">> \o Pad2(date.minutes)
                 \o <<":">> \o Pad2(date.seconds)


(***************************************************************************)
(* Settings (MemosPluginSettings) and the paths derived from a memo.       *)
(***************************************************************************)
syncDirectory == <<"m", "e", "m", "o", "s">>     \* DEFAULT_SETTINGS, main.ts:42

imageExtensions == {<<".", "j", "p", "g">>, <<".", "j", "p", "e", "g">>,
                    <<".", "p", "n", "g">>, <<".", "g", "i", "f">>,
                    <<".", "b", "m", "p">>, <<".", "w", "e", "b", "p">>}

isImageFile(filename) ==
    LET ext == LastPart(toLowerCase(filename), ".")
    IN  IF ext # <<>> THEN (<<".">> \o ext) \in imageExtensions ELSE FALSE

\* saveMemoToFile, lines 262-267
YearDir(memo) == <<syncDirectory, Decimal(memo.createTime.year)>>
MonthDir(memo) == YearDir(memo) \o <<Pad2(memo.createTime.month)>>

\* saveMemoToFile, lines 273-275
ContentPreview(memo) ==
    IF memo.content # <<>>
    THEN sanitizeFileName(Slice0(memo.content, PreviewLen))
    ELSE sanitizeFileName(RemoveFirst(memo.name, <<"m", "e", "m", "o", "s", "/">>))

\* saveMemoToFile, lines 277-278
FileName(memo) ==
    sanitizeFileName(ContentPreview(memo) \o <<" ", "(">>
                     \o formatDateTime(memo.createTime, "filename")
                     \o <<")", ".", "m", "d">>)

\* saveMemoToFile, line 279
FilePath(memo) == MonthDir(memo) \o <<FileName(memo)>>

\* downloadResource, lines 194-203
ResourceId(resource) ==
    IF LastPart(resource.name, "/") # <<>> THEN LastPart(resource.name, "/")
    ELSE resource.name
ResourceDir(targetDir) == targetDir \o <<<<"r", "e", "s", "o", "u", "r", "c", "e", "s">>>>
LocalFilename(resource) ==
    ResourceId(resource) \o <<"_">> \o sanitizeFileName(resource.filename)
LocalPath(resource, targetDir) == ResourceDir(targetDir) \o <<LocalFilename(resource)>>

\* a variant of getRelativePath that does not drop the file name of the
\* document before comparing
RelativeFromFile(fromPath, toPath) ==
    LET RECURSIVE Common(_, _)
        Common(a, b) == IF a # <<>> /\ b # <<>> /\ Head(a) = Head(b)
                        THEN 1 + Common(Tail(a), Tail(b)) ELSE 0
        i == Common(fromPath, toPath)
        goBack == Len(fromPath) - i
    IN  Join([n \in 1..goBack |-> <<".", ".">>] \o SubSeq(toPath, i + 1, Len(toPath)),
             <<"/">>)

RECURSIVE CommonPrefixLen(_, _)
CommonPrefixLen(a, b) ==
    IF a # <<>> /\ b # <<>> /\ Head(a) = Head(b)
    THEN 1 + CommonPrefixLen(Tail(a), Tail(b))
    ELSE 0

getRelativePath(fromPath, toPath) ==
    LET fromParts == SubSeq(fromPath, 1, Len(fromPath) - 1)
        i == CommonPrefixLen(fromParts, toPath)
        goBack == Len(fromParts) - i
    IN  Join([n \in 1..goBack |-> <<".", ".">>] \o SubSeq(toPath, i + 1, Len(toPath)),
             <<"/">>)

Images(memo) == SelectSeq(memo.resources, LAMBDA r : isImageFile(r.filename))
OtherFiles(memo) == SelectSeq(memo.resources, LAMBDA r : ~isImageFile(r.filename))

(***************************************************************************)
(* Rendering of a document (saveMemoToFile, lines 281-338).                *)
(***************************************************************************)
RECURSIVE TagRunLen(_)
\* length of the longest prefix matching [^#\s]*
TagRunLen(s) ==
    IF s # <<>> /\ Head(s) # "#" /\ Head(s) \notin Whitespace
    THEN 1 + TagRunLen(Tail(s))
    ELSE 0

RECURSIVE NormalizeTags(_)
\* content.replace(/\#([^\#\s]+)\#/g, '#$1')
NormalizeTags(s) ==
    IF s = <<>> THEN <<>>
    ELSE IF Head(s) = "#"
         THEN LET n == TagRunLen(Tail(s))
              IN  IF n > 0 /\ Len(s) >= n + 2 /\ s[n + 2] = "#"
                  THEN SubSeq(s, 1, n + 1) \o NormalizeTags(SubSeq(s, n + 3, Len(s)))
                  ELSE <<"#">> \o NormalizeTags(Tail(s))
         ELSE <<Head(s)>> \o NormalizeTags(Tail(s))

RECURSIVE MatchTags(_)
\* content.match(/\#([^\#\s]+)(?:\#|\s|$)/g) || []
MatchTags(s) ==
    IF s = <<>> THEN <<>>
    ELSE IF Head(s) = "#" /\ TagRunLen(Tail(s)) > 0
         THEN LET n == TagRunLen(Tail(s))
                  m == Min(n + 2, Len(s))
              IN  <<SubSeq(s, 1, m)>> \o MatchTags(SubSeq(s, m + 1, Len(s)))
         ELSE MatchTags(Tail(s))

\* tag.replace(/^\#|\#$/g, '').trim()
CleanTag(tag) ==
    LET a == IF tag # <<>> /\ Head(tag) = "#" THEN Tail(tag) ELSE tag
        b == IF a # <<>> /\ a[Len(a)] = "#" THEN SubSeq(a, 1, Len(a) - 1) ELSE a
    IN  Trim(b)

CleanTags(memo) == [n \in 1..Len(MatchTags(memo.content)) |-> CleanTag(MatchTags(memo.content)[n])]

\* lines 302 and 316
ImageLink(resource, relativePath) ==
    <<"![">> \o resource.filename \o <<"](">> \o relativePath \o <<")\n">>
FileLink(resource, relativePath) ==
    <<"- [">> \o resource.filename \o <<"](">> \o relativePath \o <<")\n">>

\* lines 329-338
MetadataBlock(memo) ==
    <<"\n\n---\n", "> [!note]- Memo Properties\n", "> - Created: ">>
    \o formatDateTime(memo.createTime, "display") \o <<"\n", "> - Updated: ">>
    \o formatDateTime(memo.updateTime, "display") \o <<"\n", "> - Type: memo\n">>
    \o (IF Len(CleanTags(memo)) > 0
        THEN <<"> - Tags: [">> \o Join(CleanTags(memo), <<",", " ">>) \o <<"]\n">>
        ELSE <<>>)
    \o <<"> - ID: ">> \o memo.name \o <<"\n", "> - Visibility: ">>
    \o toLowerCase(memo.visibility) \o <<"\n">>

(***************************************************************************)
(* The memo records the remote service may hold.  The state refers to a    *)
(* record by its letter; MemoRecord gives its fields (MemoItem, lines      *)
(* 3-23).                                                                  *)
(***************************************************************************)
ResPhoto == [name |-> <<"r", "e", "s", "o", "u", "r", "c", "e", "s", "/", "7">>,
             filename |-> <<"p", ".", "J", "P", "G">>]
ResNotes == [name |-> <<"r", "e", "s", "o", "u", "r", "c", "e", "s", "/", "8">>,
             filename |-> <<"n", ".", "p", "d", "f">>]
ResScenario == [name |-> <<"r", "e", "s", "o", "u", "r", "c", "e", "s", "/", "9">>,
                filename |-> <<"p", "h", "o", "t", "o", ".", "j", "p", "g">>]

\* two resources of one record whose ids differ and whose local file names
\* are the same: '1' with '2_a.png', and '1_2' with 'a.png'
ResFirst == [name |-> <<"r", "e", "s", "o", "u", "r", "c", "e", "s", "/", "1">>,
             filename |-> <<"2", "_", "a", ".", "p", "n", "g">>]
ResSecond == [name |-> <<"r", "e", "s", "o", "u", "r", "c", "e", "s", "/", "1", "_", "2">>,
              filename |-> <<"a", ".", "p", "n", "g">>]

MemoIds == {"A", "B", "C"}

\* the record of the end-to-end scenario, served by a remote of its own
ScenarioIds == {"D"}

\* the record that holds ResFirst and ResSecond, served by a remote of its own
SharedNameIds == {"E"}

\* A: the newest record, two resources.  B: the content of A, created in the
\* same minute.  C: no content, created in the same second as B.  D: the
\* record 'Meeting notes #work#' with the image photo.jpg, its creation time
\* 2024-03-15T10:30:00Z read where the local time is UTC.
MemoRecord(id) ==
    CASE id = "A" ->
           [name |-> <<"m", "e", "m", "o", "s", "/", "1">>,
            content |-> <<"#", "t", "#">>,
            visibility |-> <<"P", "U", "B", "L", "I", "C">>,
            createTime |-> Date(2024, 3, 15, 10, 30, 40),
            updateTime |-> Date(2024, 3, 15, 10, 30, 40),
            resources |-> <<ResNotes, ResPhoto>>]
      [] id = "B" ->
           [name |-> <<"m", "e", "m", "o", "s", "/", "2">>,
            content |-> <<"#", "t", "#">>,
            visibility |-> <<"P", "R", "I", "V", "A", "T", "E">>,
            createTime |-> Date(2024, 3, 15, 10, 30, 0),
            updateTime |-> Date(2024, 3, 15, 10, 30, 0),
            resources |-> <<>>]
      [] id = "C" ->
           [name |-> <<"m", "e", "m", "o", "s", "/", "3">>,
            content |-> <<>>,
            visibility |-> <<"P", "U", "B", "L", "I", "C">>,
            createTime |-> Date(2024, 3, 15, 10, 30, 0),
            updateTime |-> Date(2024, 4, 1, 8, 5, 9),
            resources |-> <<>>]
      [] id = "D" ->
           [name |-> <<"m", "e", "m", "o", "s", "/", "4">>,
            content |-> <<"M", "e", "e", "t", "i", "n", "g", " ", "n", "o", "t", "e", "s",
                          " ", "#", "w", "o", "r", "k", "#">>,
            visibility |-> <<"P", "R", "I", "V", "A", "T", "E">>,
            createTime |-> Date(2024, 3, 15, 10, 30, 0),
            updateTime |-> Date(2024, 3, 15, 10, 30, 0),
            resources |-> <<ResScenario>>]
      [] id = "E" ->
           [name |-> <<"m", "e", "m", "o", "s", "/", "5">>,
            content |-> <<"e">>,
            visibility |-> <<"P", "U", "B", "L", "I", "C">>,
            createTime |-> Date(2024, 5, 2, 9, 0, 0),
            updateTime |-> Date(2024, 5, 2, 9, 0, 0),
            resources |-> <<ResFirst, ResSecond>>]

Memos == {MemoRecord(id) : id \in MemoIds}
Resources == {ResPhoto, ResNotes}
ResourceIds == {ResourceId(res) : res \in Resources}

(***************************************************************************)
(* fetchAllMemos, lines 155-160: truncate, then sort newest first.  The    *)
(* sort of Array.prototype.sort is stable.                                 *)
(***************************************************************************)
\* the comparator of line 158-159, applied to (a, b)
Compare(a, b) == getTime(MemoRecord(b).createTime) - getTime(MemoRecord(a).createTime)

RECURSIVE InsertSorted(_, _)
InsertSorted(x, sorted) ==
    IF sorted = <<>> THEN <<x>>
    ELSE IF Compare(x, Head(sorted)) < 0
         THEN <<x>> \o sorted
         ELSE <<Head(sorted)>> \o InsertSorted(x, Tail(sorted))

RECURSIVE Sort(_)
Sort(s) ==
    IF s = <<>> THEN <<>>
    ELSE InsertSorted(s[Len(s)], Sort(SubSeq(s, 1, Len(s) - 1)))

\* variants of FetchResult, to see what the properties of the fetched list
\* rest on: without the cut at the limit, and without the sort
FetchNoSlice(allMemos, syncLimit) == Sort(allMemos)
FetchNoSort(allMemos, syncLimit) == Slice0(allMemos, syncLimit)
\* and with the sort before the cut: the newest records are kept
FetchSortFirst(allMemos, syncLimit) == Slice0(Sort(allMemos), syncLimit)

FetchResult(allMemos, syncLimit) == Sort(Slice0(allMemos, syncLimit))

(***************************************************************************)
(* The remote service: the collection in the order it is served, the       *)
(* version of the bytes behind the resources, the resources whose download *)
(* fails, and the largest page the service returns.                        *)
(***************************************************************************)
\* the collections the remote may hold: records in serving order, none twice
Collections ==
    {c \in UNION {[1..n -> MemoIds] : n \in 0..MaxMemos} :
        \A a, b \in 1..Len(c) : a # b => c[a] # c[b]}

\* the bytes the remote serves for a resource at version v of its content
RemoteBytes(resource, v) == <<ResourceId(resource), v>>

\* GET {base}/memos?limit=100[&offset=token]: the page at the offset, with a
\* next-page token exactly when records remain after it
ServePage(rem, token) ==
    LET n == Min(Min(pageSize, rem.pageCap), Len(rem.memos) - token)
        page == IF n > 0 THEN SubSeq(rem.memos, token + 1, token + n) ELSE <<>>
    IN  [memos |-> page,
         nextPageToken |-> IF token + n < Len(rem.memos) THEN token + n ELSE 0]

(***************************************************************************)
(* A document is kept as the sequence of the chunks appended to it         *)
(* (documentContent += ...); ChunkText gives the characters of a chunk.    *)
(***************************************************************************)
Listed(memo, kind) == IF kind = "image" THEN Images(memo) ELSE OtherFiles(memo)

\* what saveMemoToFile and downloadResource derive from a record, by its
\* letter: the directories, the document path, the two lists of resources
\* and their local paths
Derived ==
    [id \in MemoIds \cup ScenarioIds \cup SharedNameIds |->
        LET memo == MemoRecord(id)
        IN  [yearDir |-> YearDir(memo),
             monthDir |-> MonthDir(memo),
             resourceDir |-> ResourceDir(MonthDir(memo)),
             filePath |-> FilePath(memo),
             listed |-> [kind \in {"image", "file"} |-> Listed(memo, kind)],
             localPath |-> [kind \in {"image", "file"} |->
                             [j \in 1..Len(Listed(memo, kind)) |->
                                LocalPath(Listed(memo, kind)[j], MonthDir(memo))]]]]

ChunkText(chunk) ==
    LET memo == MemoRecord(chunk[2])
    IN  CASE chunk[1] = "content" -> NormalizeTags(memo.content)
          [] chunk[1] = "images" -> <<"\n\n">>
          [] chunk[1] = "attachments" -> <<"\n\n### Attachments\n">>
          [] chunk[1] = "image" ->
               ImageLink(Listed(memo, "image")[chunk[3]],
                         getRelativePath(FilePath(memo),
                             LocalPath(Listed(memo, "image")[chunk[3]], MonthDir(memo))))
          [] chunk[1] = "file" ->
               FileLink(Listed(memo, "file")[chunk[3]],
                        getRelativePath(FilePath(memo),
                            LocalPath(Listed(memo, "file")[chunk[3]], MonthDir(memo))))
          [] chunk[1] = "properties" -> MetadataBlock(memo)

RECURSIVE DocumentText(_)
DocumentText(chunks) ==
    IF chunks = <<>> THEN <<>>
    ELSE ChunkText(Head(chunks)) \o DocumentText(Tail(chunks))

(***************************************************************************)
(* State.                                                                  *)
(***************************************************************************)
VARIABLES
    settings,   \* this.settings: memosApiUrl, memosAccessToken, syncLimit
    remote,     \* the remote service: memos, bytes, down, pageCap
    changes,    \* how often the remote state has changed
    dirs,       \* the file store: the directories that exist
    files,      \* the file store: path -> content of the files that exist
    indexed,    \* the paths vault.getAbstractFileByPath finds
    faulty,     \* the paths on which mkdir, writeBinary, create and modify throw
    runs,       \* the invocations of syncMemos, each at its await
    call,       \* a call of getRelativePath: its arguments and what it returned
    auto        \* the plugin's load, its sync cadence settings and its interval timer

vars == <<settings, remote, changes, dirs, files, indexed, faulty, runs, call, auto>>

RunIds == 1..MaxRuns

UrlEmpty == ""
UrlNoApi == "https://host"
UrlOk == "https://host/api/v1"
\* memosApiUrl.includes('/api/v1')
IncludesApiV1(url) == url = UrlOk

Put(f, key, value) == [x \in DOMAIN f \cup {key} |-> IF x = key THEN value ELSE f[x]]

\* A run before its invocation.  The fields up to "report" are the locals of
\* syncMemos, fetchAllMemos, saveMemoToFile and downloadResource; the others
\* record what the run did: the I/O calls it issued (io), the page requests
\* among them (pages), the store writes that took effect (writes), the local
\* paths it requested a download for (requested), the downloads that returned
\* null (nulls), the remote state and the files at its start, whether the
\* remote state changed while it ran (stable), whether another run was active
\* while it ran (solo), and whether it left the files as it found them (same).
IdleRun ==
    [pc |-> "idle", after |-> "none", allMemos |-> <<>>, pageToken |-> 0,
     memos |-> <<>>, k |-> 0, phase |-> "none", j |-> 0,
     documentContent |-> <<>>, buffer |-> <<>>, syncCount |-> 0,
     report |-> "none", error |-> "none",
     io |-> 0, pages |-> 0, writes |-> 0, requested |-> {}, nulls |-> {},
     remote0 |-> <<>>, files0 |-> <<>>, stable |-> TRUE, solo |-> TRUE, same |-> TRUE,
     beat |-> 0, written |-> 0]

Active(r) == r.pc \notin {"idle", "done", "failed"}

Memo(r) == MemoRecord(r.memos[r.k])
Pending(r) == Derived[r.memos[r.k]].listed[r.phase]
Resource(r) == Pending(r)[r.j]
filePath(r) == Derived[r.memos[r.k]].filePath
localPath(r) == Derived[r.memos[r.k]].localPath[r.phase][r.j]

\* the directory ensureDirectoryExists was called with, by its call site
DirOf(r) ==
    CASE r.after = "root" -> <<syncDirectory>>
      [] r.after = "year" -> Derived[r.memos[r.k]].yearDir
      [] r.after = "month" -> Derived[r.memos[r.k]].monthDir
      [] r.after = "res" -> Derived[r.memos[r.k]].resourceDir

(***************************************************************************)
(* The synchronous code between two awaits, as a step of the run record.   *)
(***************************************************************************)
\* syncMemos, line 392
Finish(r) == [r EXCEPT !.pc = "done", !.report = "success"]

\* syncMemos, lines 387-388: the loop head, then saveMemoToFile up to line 269
NextMemo(r) ==
    IF r.k > Len(r.memos) THEN Finish(r)
    ELSE [r EXCEPT !.pc = "dirExists", !.after = "year", !.phase = "none", !.j = 0]

\* a variant of Fail that skips the record whose write failed and goes on
SkipRecord(r, why) ==
    IF why = "save" THEN NextMemo([r EXCEPT !.k = @ + 1])
    ELSE [r EXCEPT !.pc = "failed", !.report = "failed", !.error = why]

\* syncMemos, lines 393-396: the catch block
Fail(r, why) == [r EXCEPT !.pc = "failed", !.report = "failed", !.error = why]

\* fetchAllMemos, lines 155-160, then syncMemos, lines 384-387
EndFetch(r) ==
    NextMemo([r EXCEPT !.memos = FetchResult(r.allMemos, settings.syncLimit),
                       !.k = 1, !.syncCount = 0])

\* fetchAllMemos, lines 92-111: the loop head and the request of a page
LoopHead(r) ==
    IF Len(r.allMemos) < settings.syncLimit
    THEN [r EXCEPT !.pc = "fetch", !.pages = @ + 1]
    ELSE EndFetch(r)

\* fetchAllMemos, lines 83-90
BeginFetch(r) ==
    IF ~IncludesApiV1(settings.memosApiUrl) THEN Fail(r, "url")
    ELSE LoopHead([r EXCEPT !.allMemos = <<>>, !.pageToken = 0])

\* a variant of Finalize that puts the metadata block on top of the document
FinalizeOnTop(r) ==
    [r EXCEPT !.documentContent = <<<<"properties", r.memos[r.k]>>>> \o @,
              !.pc = "docExists"]

\* saveMemoToFile, lines 324-341: the metadata block, then the check of the
\* document's path
Finalize(r) ==
    [r EXCEPT !.documentContent = @ \o <<<<"properties", r.memos[r.k]>>>>,
              !.pc = "docExists"]

\* downloadResource, lines 194-199
BeginDownload(r) == [r EXCEPT !.pc = "dirExists", !.after = "res"]

\* saveMemoToFile, lines 309-313: the attachments, if any, after the images
StartOthers(r) ==
    IF Len(OtherFiles(Memo(r))) > 0
    THEN BeginDownload([r EXCEPT !.documentContent = @ \o <<<<"attachments", r.memos[r.k]>>>>,
                                 !.phase = "file", !.j = 1])
    ELSE Finalize(r)

\* saveMemoToFile, lines 281-299: the content, the partition of the
\* resources, and the first download
StartResources(r) ==
    LET memo == Memo(r)
        r1 == [r EXCEPT !.documentContent = <<<<"content", r.memos[r.k]>>>>]
    IN  IF Len(memo.resources) > 0
        THEN IF Len(Images(memo)) > 0
             THEN BeginDownload([r1 EXCEPT !.documentContent = @ \o <<<<"images", r.memos[r.k]>>>>,
                                           !.phase = "image", !.j = 1])
             ELSE StartOthers(r1)
        ELSE Finalize(r1)

\* a variant of DownloadReturned in which a failed download is thrown to
\* syncMemos instead of being returned as null
DownloadThrows(r, ok) ==
    LET r1 == IF ok THEN [r EXCEPT !.documentContent = @ \o <<<<r.phase, r.memos[r.k], r.j>>>>]
              ELSE [r EXCEPT !.nulls = @ \cup {<<r.k, r.phase, r.j>>}]
    IN  IF ~ok THEN Fail(r1, "download")
        ELSE IF r.j < Len(Pending(r))
        THEN BeginDownload([r1 EXCEPT !.j = @ + 1])
        ELSE IF r.phase = "image" THEN StartOthers(r1)
        ELSE Finalize(r1)

\* a variant of DownloadReturned that appends the link whether the download
\* returned a path or null
DownloadLinksAlways(r, ok) ==
    LET r1 == IF ok THEN [r EXCEPT !.documentContent = @ \o <<<<r.phase, r.memos[r.k], r.j>>>>]
              ELSE [r EXCEPT !.documentContent = @ \o <<<<r.phase, r.memos[r.k], r.j>>>>,
                             !.nulls = @ \cup {<<r.k, r.phase, r.j>>}]
    IN  IF r.j < Len(Pending(r))
        THEN BeginDownload([r1 EXCEPT !.j = @ + 1])
        ELSE IF r.phase = "image" THEN StartOthers(r1)
        ELSE Finalize(r1)

\* a variant of DownloadReturned that writes the document after the images,
\* without waiting for the attachments
DownloadSkipsOthers(r, ok) ==
    LET r1 == IF ok THEN [r EXCEPT !.documentContent = @ \o <<<<r.phase, r.memos[r.k], r.j>>>>]
              ELSE [r EXCEPT !.nulls = @ \cup {<<r.k, r.phase, r.j>>}]
    IN  IF r.j < Len(Pending(r))
        THEN BeginDownload([r1 EXCEPT !.j = @ + 1])
        ELSE Finalize(r1)

\* saveMemoToFile, lines 300-321: downloadResource has returned localPath, or
\* null (ok = FALSE); the link, then the next download
DownloadReturned(r, ok) ==
    LET r1 == IF ok THEN [r EXCEPT !.documentContent = @ \o <<<<r.phase, r.memos[r.k], r.j>>>>]
              ELSE [r EXCEPT !.nulls = @ \cup {<<r.k, r.phase, r.j>>}]
    IN  IF r.j < Len(Pending(r))
        THEN BeginDownload([r1 EXCEPT !.j = @ + 1])
        ELSE IF r.phase = "image" THEN StartOthers(r1)
        ELSE Finalize(r1)

\* the code after ensureDirectoryExists returns, by its call site
AfterDir(r) ==
    CASE r.after = "root" -> BeginFetch(r)
      [] r.after = "year" -> [r EXCEPT !.pc = "dirExists", !.after = "month"]
      [] r.after = "month" -> StartResources(r)
      [] r.after = "res" -> [r EXCEPT !.pc = "resExists"]

\* saveMemoToFile, line 350, then syncMemos, lines 389 and 387
Saved(r) == NextMemo([r EXCEPT !.syncCount = @ + 1, !.k = @ + 1])

\* the record of a step: the I/O call the run now awaits, and at its end
\* whether the files are those it started with
Recorded(r, fs) ==
    IF Active(r) THEN [r EXCEPT !.io = @ + 1]
    ELSE [r EXCEPT !.same = (fs = r.files0), !.files0 = <<>>]

(***************************************************************************)
(* Actions: one per await of syncMemos and of the methods it calls.        *)
(***************************************************************************)
SetRun(i, r, fs) == runs' = [runs EXCEPT ![i] = Recorded(r, fs)]

\* a variant of Configured that accepts every setting
NoValidation == TRUE

\* syncMemos, lines 372-377: the settings that let a run begin
Configured == settings.memosApiUrl # "" /\ settings.memosAccessToken # ""

\* a variant of Start with a run-state flag: an invocation that arrives
\* while a run is at an await is dropped
StartGuarded(i) ==
    /\ \A j \in RunIds : ~Active(runs[j])
    /\ runs[i].pc = "idle"
    /\ IF i = 1 THEN TRUE ELSE runs[i - 1].pc # "idle"
    /\ LET r0 == [runs[i] EXCEPT !.remote0 = remote, !.files0 = files, !.solo = TRUE]
           r1 == IF ~Configured THEN Fail(r0, "config")
                 ELSE [r0 EXCEPT !.pc = "dirExists", !.after = "root"]
       IN  runs' = [runs EXCEPT ![i] = Recorded(r1, files)]
    /\ UNCHANGED <<auto, call, settings, remote, changes, dirs, files, indexed, faulty>>

\* syncMemos is invoked (ribbon, line 57, or timer, line 75): lines 372-381
Start(i) ==
    /\ runs[i].pc = "idle"
    /\ IF i = 1 THEN TRUE ELSE runs[i - 1].pc # "idle"
    /\ LET r0 == [runs[i] EXCEPT !.remote0 = remote, !.files0 = files,
                                 !.solo = \A j \in RunIds : ~Active(runs[j])]
           r1 == IF ~Configured THEN Fail(r0, "config")
                 ELSE [r0 EXCEPT !.pc = "dirExists", !.after = "root"]
       IN  runs' = [j \in RunIds |->
                      IF j = i THEN Recorded(r1, files)
                      ELSE IF Active(runs[j]) THEN [runs[j] EXCEPT !.solo = FALSE]
                      ELSE runs[j]]
    /\ UNCHANGED <<auto, call, settings, remote, changes, dirs, files, indexed, faulty>>

\* ensureDirectoryExists, line 365: adapter.exists(dirPath) returns
DirExists(i) ==
    LET r == runs[i]
    IN  /\ r.pc = "dirExists"
        /\ IF DirOf(r) \in dirs
           THEN SetRun(i, AfterDir(r), files)
           ELSE SetRun(i, [r EXCEPT !.pc = "dirMkdir"], files)
        /\ UNCHANGED <<auto, call, settings, remote, changes, dirs, files, indexed, faulty>>

\* ensureDirectoryExists, line 366: adapter.mkdir(dirPath) returns or throws;
\* downloadResource catches (line 230), saveMemoToFile and syncMemos do not
DirMkdir(i) ==
    LET r == runs[i]
    IN  /\ r.pc = "dirMkdir"
        /\ IF DirOf(r) \in faulty
           THEN /\ SetRun(i, IF r.after = "res" THEN DownloadReturned(r, FALSE)
                             ELSE Fail(r, "mkdir"), files)
                /\ UNCHANGED dirs
           ELSE /\ dirs' = dirs \cup {DirOf(r)}
                /\ SetRun(i, AfterDir([r EXCEPT !.writes = @ + 1]), files)
        /\ UNCHANGED <<auto, call, settings, remote, changes, files, indexed, faulty>>

\* fetchAllMemos, lines 111-153: the page request returns
FetchPage(i) ==
    LET r == runs[i]
    IN  /\ r.pc = "fetch"
        /\ \E outcome \in {"ok", "http", "parse", "format", "network"} :
              IF outcome = "ok"
              THEN LET data == ServePage(remote, r.pageToken)
                       r1 == [r EXCEPT !.allMemos = @ \o data.memos]
                   IN  IF data.nextPageToken = 0
                          \/ Len(r1.allMemos) >= settings.syncLimit
                       THEN SetRun(i, EndFetch(r1), files)
                       ELSE SetRun(i, LoopHead([r1 EXCEPT !.pageToken = data.nextPageToken]),
                                   files)
              ELSE SetRun(i, Fail(r, outcome), files)
        /\ UNCHANGED <<auto, call, settings, remote, changes, dirs, files, indexed, faulty>>

\* a variant of ResExists that downloads whether the file exists or not
ResAlwaysFetch(i) ==
    LET r == runs[i]
    IN  /\ r.pc = "resExists"
        /\ SetRun(i, [r EXCEPT !.pc = "resFetch", !.requested = @ \cup {localPath(r)}], files)
        /\ UNCHANGED <<auto, call, settings, remote, changes, dirs, files, indexed, faulty>>

\* fetchAllMemos, lines 111-153: the page request returns an empty memos
\* array with a next-page token: nothing is pushed, the limit is not reached,
\* the token is kept and the loop requests again.  The program is in the
\* state it was in before the request; beat tells the requests apart
FetchEmpty(i) ==
    LET r == runs[i]
    IN  /\ r.pc = "fetch"
        /\ Len(r.allMemos) < settings.syncLimit
        /\ runs' = [runs EXCEPT ![i] = [r EXCEPT !.beat = 1 - @]]
        /\ UNCHANGED <<auto, call, settings, remote, changes, dirs, files, indexed, faulty>>

\* downloadResource, lines 206-214: adapter.exists(localPath) returns
ResExists(i) ==
    LET r == runs[i]
    IN  /\ r.pc = "resExists"
        /\ IF localPath(r) \in DOMAIN files
           THEN SetRun(i, DownloadReturned(r, TRUE), files)
           ELSE SetRun(i, [r EXCEPT !.pc = "resFetch",
                                    !.requested = @ \cup {localPath(r)}], files)
        /\ UNCHANGED <<auto, call, settings, remote, changes, dirs, files, indexed, faulty>>

\* downloadResource, lines 214-225: the download returns, fails or throws
ResFetch(i) ==
    LET r == runs[i]
    IN  /\ r.pc = "resFetch"
        /\ IF ResourceId(Resource(r)) \in remote.down
           THEN SetRun(i, DownloadReturned(r, FALSE), files)
           ELSE SetRun(i, [r EXCEPT !.pc = "resWrite",
                                    !.buffer = RemoteBytes(Resource(r), remote.bytes)],
                       files)
        /\ UNCHANGED <<auto, call, settings, remote, changes, dirs, files, indexed, faulty>>

\* downloadResource, lines 226-229: adapter.writeBinary returns or throws
ResWrite(i) ==
    LET r == runs[i]
    IN  /\ r.pc = "resWrite"
        /\ IF localPath(r) \in faulty
           THEN /\ SetRun(i, DownloadReturned(r, FALSE), files)
                /\ UNCHANGED files
           ELSE /\ files' = Put(files, localPath(r), r.buffer)
                /\ SetRun(i, DownloadReturned([r EXCEPT !.writes = @ + 1], TRUE), files')
        /\ UNCHANGED <<auto, call, settings, remote, changes, dirs, indexed, faulty>>

\* saveMemoToFile, lines 341-347: adapter.exists(filePath) returns
DocExists(i) ==
    LET r == runs[i]
    IN  /\ r.pc = "docExists"
        /\ IF filePath(r) \in DOMAIN files
           THEN IF filePath(r) \in indexed
                THEN SetRun(i, [r EXCEPT !.pc = "docModify"], files)
                ELSE SetRun(i, Saved(r), files)
           ELSE SetRun(i, [r EXCEPT !.pc = "docCreate"], files)
        /\ UNCHANGED <<auto, call, settings, remote, changes, dirs, files, indexed, faulty>>

\* vault.modify(file, data): the content of the file is replaced by data
VaultModify(fs, path, data) == Put(fs, path, data)

\* saveMemoToFile, lines 345 and 350-354: vault.modify returns or throws
DocModify(i) ==
    LET r == runs[i]
    IN  /\ r.pc = "docModify"
        /\ IF filePath(r) \in faulty
           THEN /\ SetRun(i, Fail(r, "save"), files)
                /\ UNCHANGED files
           ELSE /\ files' = VaultModify(files, filePath(r), r.documentContent)
                /\ SetRun(i, Saved([r EXCEPT !.writes = @ + 1, !.written = @ + 1]), files')
        /\ UNCHANGED <<auto, call, settings, remote, changes, dirs, indexed, faulty>>

\* saveMemoToFile, lines 348 and 350-354: vault.create returns, or throws
\* (also when the file exists by now)
DocCreate(i) ==
    LET r == runs[i]
    IN  /\ r.pc = "docCreate"
        /\ IF filePath(r) \in faulty \/ filePath(r) \in DOMAIN files
           THEN /\ SetRun(i, Fail(r, "save"), files)
                /\ UNCHANGED <<files, indexed>>
           ELSE /\ files' = Put(files, filePath(r), r.documentContent)
                /\ indexed' = indexed \cup {filePath(r)}
                /\ SetRun(i, Saved([r EXCEPT !.writes = @ + 1, !.written = @ + 1]), files')
        /\ UNCHANGED <<auto, call, settings, remote, changes, dirs, faulty>>

\* the remote state changes: the bytes of the resources, a resource whose
\* download fails or works again, a record removed, or a new record served
\* first
RemoteChange ==
    /\ changes < MaxChanges
    /\ \E j \in RunIds : runs[j].pc \notin {"done", "failed"}
    /\ \/ remote' = [remote EXCEPT !.bytes = 3 - @]
       \/ \E rid \in ResourceIds :
             remote' = [remote EXCEPT !.down =
                          IF rid \in @ THEN @ \ {rid} ELSE @ \cup {rid}]
       \/ \E n \in 1..Len(remote.memos) :
             remote' = [remote EXCEPT !.memos =
                          SubSeq(@, 1, n - 1) \o SubSeq(@, n + 1, Len(@))]
       \/ \E id \in MemoIds :
             /\ Len(remote.memos) < MaxMemos
             /\ \A n \in 1..Len(remote.memos) : remote.memos[n] # id
             /\ remote' = [remote EXCEPT !.memos = <<id>> \o @]
    /\ changes' = changes + 1
    /\ runs' = [j \in RunIds |->
                  IF Active(runs[j]) THEN [runs[j] EXCEPT !.stable = FALSE] ELSE runs[j]]
    /\ UNCHANGED <<auto, call, settings, dirs, files, indexed, faulty>>

Step(i) ==
    \/ DirExists(i) \/ DirMkdir(i) \/ FetchPage(i)
    \/ ResExists(i) \/ ResFetch(i) \/ ResWrite(i)
    \/ DocExists(i) \/ DocModify(i) \/ DocCreate(i)

(***************************************************************************)
(* Specifications.                                                         *)
(***************************************************************************)
AllSettings ==
    [memosApiUrl : {UrlEmpty, UrlNoApi, UrlOk}, memosAccessToken : {"", "token"},
     syncLimit : 1..MaxLimit]

OkSettings == [memosApiUrl |-> UrlOk, memosAccessToken |-> "token", syncLimit |-> MaxLimit]

AllRemotes == [memos : Collections, bytes : {1}, down : {{}}, pageCap : 1..MaxPageCap]

\* the paths a run over the memos may write
AllPaths ==
    {<<syncDirectory>>}
    \cup UNION {{YearDir(m), MonthDir(m), ResourceDir(MonthDir(m)), FilePath(m)} : m \in Memos}
    \cup UNION {{LocalPath(m.resources[n], MonthDir(m)) : n \in 1..Len(m.resources)} :
                 m \in Memos}

\* the vault when the plugin is loaded: empty, or holding an empty file at the
\* path of a document, which the vault's index holds or does not hold yet
EmptyVault == [dirs |-> {}, files |-> <<>>, indexed |-> {}]

OldVaults ==
    {[dirs |-> {<<syncDirectory>>, YearDir(m), MonthDir(m)},
      files |-> [p \in {FilePath(m)} |-> <<>>],
      indexed |-> IF known THEN {FilePath(m)} ELSE {}] : m \in Memos, known \in BOOLEAN}

\* no call of getRelativePath is followed
NoCall == [pc |-> "none", fromPath |-> <<>>, toPath |-> <<>>, relativePath |-> <<>>]

\* the plugin before onload, with the cadence settings of its data: the
\* fields settings.syncFrequency and settings.autoSyncInterval (minutes), the
\* period of the interval timer in milliseconds (handle, 0 when there is no
\* timer), the number of setInterval calls (created), the time in
\* milliseconds (now), the time the timer fires next (due), the calls of
\* syncMemos by the timer (invoked), and the cadence settings as onload
\* found them (atLoad)
Unloaded(frequency, minutes) ==
    [loaded |-> FALSE, syncFrequency |-> frequency, autoSyncInterval |-> minutes,
     handle |-> 0, created |-> 0, now |-> 0, due |-> 0, invoked |-> 0,
     atLoad |-> [syncFrequency |-> "none", autoSyncInterval |-> 0]]

\* DEFAULT_SETTINGS, lines 43-44; the timer is not followed
NoAuto == Unloaded("manual", 30)

InitOf(S, R, F, V) ==
    /\ settings \in S
    /\ remote \in R
    /\ faulty \in F
    /\ changes = 0
    /\ \E v \in V : dirs = v.dirs /\ files = v.files /\ indexed = v.indexed
    /\ runs = [i \in RunIds |-> IdleRun]
    /\ call = NoCall
    /\ auto = NoAuto

\* the plugin as it runs: an invocation may arrive while a run is at an await
Init ==
    InitOf({OkSettings}, {r \in AllRemotes : r.pageCap = MaxPageCap /\ Len(r.memos) = 1},
           {{}}, {EmptyVault})

Next == RemoteChange \/ \E i \in RunIds : Start(i) \/ Step(i)

Spec == Init /\ [][Next]_vars

\* the plugin when every invocation arrives after the run before it has ended
StartSolo(i) == (\A j \in RunIds : ~Active(runs[j])) /\ Start(i)

InitSeq ==
    \/ InitOf(AllSettings, AllRemotes, {{}}, {EmptyVault})
    \/ InitOf({OkSettings}, {r \in AllRemotes : r.pageCap = MaxPageCap},
              {{p} : p \in AllPaths}, {EmptyVault})
    \/ InitOf({OkSettings}, {r \in AllRemotes : r.pageCap = MaxPageCap}, {{}}, OldVaults)

NextSeq == RemoteChange \/ \E i \in RunIds : StartSolo(i) \/ Step(i)

SpecSeq == InitSeq /\ [][NextSeq]_vars

\* the plugin with a remote service that may answer a page request with no
\* records and a next-page token, every awaited call of a run returning in
\* the end
InitLive ==
    InitOf({OkSettings}, {r \in AllRemotes : r.pageCap = MaxPageCap /\ Len(r.memos) <= 1},
           {{}}, {EmptyVault})

StepLive(i) == Step(i) \/ FetchEmpty(i)

NextLive == RemoteChange \/ \E i \in RunIds : StartSolo(i) \/ StepLive(i)

SpecLive == InitLive /\ [][NextLive]_vars /\ \A i \in RunIds : WF_vars(StepLive(i))

\* the end-to-end scenario: the remote serves the record D
InitScenario ==
    InitOf({OkSettings},
           [memos : {<<"D">>}, bytes : {1}, down : {{}}, pageCap : {MaxPageCap}],
           {{}}, {EmptyVault})

SpecScenario == InitScenario /\ [][NextSeq]_vars

\* the remote serves the record E, whose two resources have different ids
InitShared ==
    InitOf({OkSettings},
           [memos : {<<"E">>}, bytes : {1}, down : {{}}, pageCap : {MaxPageCap}],
           {{}}, {EmptyVault})

SpecShared == InitShared /\ [][NextSeq]_vars

\* getRelativePath on its own: the path of a document and the path of a
\* target, both of plain segments, the target anywhere in the tree or in the
\* 'resources' directory next to the document
Segments == {<<"a">>, <<"b">>, <<"c", ".", "d">>}

RECURSIVE PathsOfLength(_)
PathsOfLength(n) ==
    IF n = 0 THEN {<<>>}
    ELSE {path \o <<seg>> : path \in PathsOfLength(n - 1), seg \in Segments}

PlainPaths == UNION {PathsOfLength(n) : n \in 1..MaxDepth}

Calls ==
    UNION {{[pc |-> "called", fromPath |-> from, toPath |-> to, relativePath |-> <<>>] :
              to \in PlainPaths
                     \cup {ResourceDir(SubSeq(from, 1, Len(from) - 1)) \o <<seg>> :
                              seg \in Segments}} :
           from \in PlainPaths}

InitPaths ==
    /\ call \in Calls
    /\ auto = NoAuto
    /\ settings = OkSettings
    /\ remote \in {r \in AllRemotes : r.pageCap = MaxPageCap /\ r.memos = <<>>}
    /\ faulty = {}
    /\ changes = 0
    /\ dirs = {} /\ files = <<>> /\ indexed = {}
    /\ runs = [i \in RunIds |-> IdleRun]

\* getRelativePath, lines 236-259: the call returns
GetRelativePath ==
    /\ call.pc = "called"
    /\ call' = [call EXCEPT !.pc = "returned",
                            !.relativePath = getRelativePath(call.fromPath, call.toPath)]
    /\ UNCHANGED <<auto, settings, remote, changes, dirs, files, indexed, faulty, runs>>

NextPaths == GetRelativePath

SpecPaths == InitPaths /\ [][NextPaths]_vars

\* the interval timer on its own: the plugin is loaded with the cadence
\* settings of its data, the user changes them in the settings tab, time
\* passes and the timer fires
InitTimer ==
    /\ auto \in {Unloaded(frequency, minutes) :
                   frequency \in {"manual", "auto"}, minutes \in 1..MaxInterval}
    /\ call = NoCall
    /\ settings = OkSettings
    /\ remote \in {r \in AllRemotes : r.pageCap = MaxPageCap /\ r.memos = <<>>}
    /\ faulty = {}
    /\ changes = 0
    /\ dirs = {} /\ files = <<>> /\ indexed = {}
    /\ runs = [i \in RunIds |-> IdleRun]

\* initializeAutoSync, lines 73-76: setInterval with the interval of the
\* settings, in milliseconds
initializeAutoSync(a) ==
    LET interval == a.autoSyncInterval * 60 * 1000
    IN  [a EXCEPT !.handle = interval, !.created = @ + 1, !.due = a.now + interval]

\* onload, lines 51-63
onload ==
    /\ ~auto.loaded
    /\ LET a == [auto EXCEPT !.loaded = TRUE,
                             !.atLoad = [syncFrequency |-> auto.syncFrequency,
                                         autoSyncInterval |-> auto.autoSyncInterval]]
       IN  auto' = IF a.syncFrequency = "auto" THEN initializeAutoSync(a) ELSE a
    /\ UNCHANGED <<call, settings, remote, changes, dirs, files, indexed, faulty, runs>>

\* a variant of SetSyncFrequency that applies the cadence at once: 'auto'
\* starts a timer, 'manual' clears it
SetSyncFrequencyApplied(value) ==
    /\ auto.loaded
    /\ value # auto.syncFrequency
    /\ LET a == [auto EXCEPT !.syncFrequency = value]
       IN  auto' = IF value = "auto" THEN initializeAutoSync(a)
                   ELSE [a EXCEPT !.handle = 0]
    /\ UNCHANGED <<call, settings, remote, changes, dirs, files, indexed, faulty, runs>>

\* display, lines 468-478: the onChange of the dropdown 'Sync Frequency'
SetSyncFrequency(value) ==
    /\ auto.loaded
    /\ value # auto.syncFrequency
    /\ auto' = [auto EXCEPT !.syncFrequency = value]
    /\ UNCHANGED <<call, settings, remote, changes, dirs, files, indexed, faulty, runs>>

\* display, lines 480-492: the onChange of the text 'Auto Sync Interval';
\* a value that is not a number above 0 is dropped
SetAutoSyncInterval(numValue) ==
    /\ auto.loaded
    /\ numValue # auto.autoSyncInterval
    /\ auto' = IF numValue > 0 THEN [auto EXCEPT !.autoSyncInterval = numValue] ELSE auto
    /\ UNCHANGED <<call, settings, remote, changes, dirs, files, indexed, faulty, runs>>

\* a minute passes in which no timer is due
Minute ==
    /\ auto.loaded
    /\ auto.now < MaxMinutes * 60 * 1000
    /\ auto.handle # 0 => auto.now < auto.due
    /\ auto' = [auto EXCEPT !.now = @ + 60 * 1000]
    /\ UNCHANGED <<call, settings, remote, changes, dirs, files, indexed, faulty, runs>>

\* the timer of line 75 fires: syncMemos is called, the next firing is one
\* period later
TimerFires ==
    /\ auto.handle # 0
    /\ auto.now >= auto.due
    /\ auto' = [auto EXCEPT !.invoked = @ + 1, !.due = @ + auto.handle]
    /\ UNCHANGED <<call, settings, remote, changes, dirs, files, indexed, faulty, runs>>

NextTimer ==
    \/ onload
    \/ \E value \in {"manual", "auto"} : SetSyncFrequency(value)
    \/ \E numValue \in 0..MaxInterval : SetAutoSyncInterval(numValue)
    \/ Minute
    \/ TimerFires

SpecTimer == InitTimer /\ [][NextTimer]_vars

(***************************************************************************)
(* Properties.                                                             *)
(***************************************************************************)
\* the run has left fetchAllMemos with its result
Fetched(r) == r.k >= 1

\* the run is the one started last
Latest(i) == IF i = MaxRuns THEN TRUE ELSE runs[i + 1].pc = "idle"

\* the paths of the resource files
ResourcePaths ==
    UNION {{LocalPath(m.resources[n], MonthDir(m)) : n \in 1..Len(m.resources)} : m \in Memos}

\* the document path of the n-th record of the run
PathOf(r, n) == Derived[r.memos[n]].filePath

\* C1: when a run completes, and then a second run starts after it and
\* completes, both alone and against the same remote state that did not
\* change, the second run requests no download of a resource file present
\* at its start, and every file has at its end the content it had after
\* the first run.
C1_Idempotence ==
    \A i \in RunIds \ {MaxRuns} :
        LET first == runs[i]
            second == runs[i + 1]
        IN  (/\ first.pc = "done" /\ first.solo /\ first.stable
             /\ second.pc # "idle" /\ second.solo /\ second.stable
             /\ second.remote0 = first.remote0)
            => /\ Active(second) => second.requested \cap DOMAIN second.files0 = {}
               /\ second.pc = "done" => second.same

\* C1: a second run has completed over a record with resources after a first
\* run that stored them
C1_Witness ==
    \E i \in RunIds \ {MaxRuns} :
        /\ runs[i].pc = "done" /\ runs[i].solo /\ runs[i].stable
        /\ runs[i + 1].pc = "done" /\ runs[i + 1].solo /\ runs[i + 1].stable
        /\ runs[i + 1].remote0 = runs[i].remote0
        /\ runs[i].writes > 3
        /\ \E p \in ResourcePaths : p \in DOMAIN files

\* C2: when no request fails and the remote collection of M records does not
\* change, fetchAllMemos returns exactly min(M, L) records for the limit L.
C2_PaginationSize ==
    \A i \in RunIds :
        LET r == runs[i]
        IN  (Fetched(r) /\ r.stable)
            => Len(r.memos) = Min(Len(r.remote0.memos), settings.syncLimit)

\* C2: a fetch of two pages has returned two records
C2_Witness ==
    \E i \in RunIds :
        Fetched(runs[i]) /\ runs[i].stable /\ runs[i].pages = 2 /\ Len(runs[i].memos) = 2

\* the creation time of the n-th record of the fetched list, in seconds
TimeOf(r, n) == getTime(MemoRecord(r.memos[n]).createTime)

\* C3: the list returned by fetchAllMemos is in descending order of creation
\* time, records of equal creation time next to each other: no record is
\* followed by a record created later.
C3_Descending ==
    \A i \in RunIds :
        LET r == runs[i]
        IN  Fetched(r) => \A n \in 1..(Len(r.memos) - 1) : TimeOf(r, n) >= TimeOf(r, n + 1)

\* C3: a fetch has returned two records in another order than they arrived
C3_Witness ==
    \E i \in RunIds :
        Fetched(runs[i]) /\ Len(runs[i].memos) = 2 /\ runs[i].memos # runs[i].allMemos

\* C3 as stated: every record of the returned list is created strictly after
\* the record that follows it
C3_StrictlyDescending ==
    \A i \in RunIds :
        LET r == runs[i]
        IN  Fetched(r) => \A n \in 1..(Len(r.memos) - 1) : TimeOf(r, n) > TimeOf(r, n + 1)

C5_NoPartialOutput ==
    \A i \in RunIds :
        (runs[i].pc = "failed" /\ runs[i].error \in {"http", "parse", "format", "network"})
        => runs[i].writes = 0

\* C6: with an empty URL or an empty access token a started run has failed
\* with the configuration error and has issued no request and no file-store
\* operation.
C6_Preflight ==
    \A i \in RunIds :
        LET r == runs[i]
        IN  (r.pc # "idle" /\ (settings.memosApiUrl = "" \/ settings.memosAccessToken = ""))
            => /\ r.pc = "failed" /\ r.report = "failed" /\ r.error = "config"
               /\ r.io = 0 /\ r.pages = 0 /\ r.writes = 0 /\ r.same

\* C6: a run has been started with an empty URL or an empty access token
C6_Witness ==
    \E i \in RunIds :
        /\ runs[i].pc = "failed" /\ runs[i].error = "config"
        /\ settings.memosAccessToken = "" /\ settings.memosApiUrl # ""

\* the write the run awaits fails
WriteFails(r) ==
    /\ r.pc \in {"docModify", "docCreate"}
    /\ \/ filePath(r) \in faulty
       \/ r.pc = "docCreate" /\ filePath(r) \in DOMAIN files

\* C7: when the document write of the k-th record fails, the run fails at
\* that step with k - 1 records saved, the step leaves every file and
\* directory as it is, and a failed run takes no further step.
C7_WriteFailureFatal ==
    [][\A i \in RunIds :
          LET r == runs[i]
          IN  /\ (WriteFails(r) /\ runs'[i].pc # r.pc)
                 => /\ runs'[i].pc = "failed" /\ runs'[i].report = "failed"
                    /\ runs'[i].k = r.k /\ runs'[i].syncCount = r.k - 1
                    /\ files' = files /\ dirs' = dirs
              /\ r.pc = "failed" => runs'[i] = r]_vars

\* C7: a run has failed at the document write of its second record, the
\* document of the first in the store
C7_Witness ==
    \E i \in RunIds :
        /\ runs[i].pc = "failed" /\ runs[i].error = "save"
        /\ runs[i].k = 2 /\ runs[i].syncCount = 1
        /\ PathOf(runs[i], 1) \in DOMAIN files

\* C8 as stated: two records of a run with the same content preview and
\* different creation times have different document paths
C8_DistinctPaths ==
    \A i \in RunIds :
        LET r == runs[i]
        IN  \A a, b \in 1..Len(r.memos) :
               LET ma == MemoRecord(r.memos[a])
                   mb == MemoRecord(r.memos[b])
               IN  (ContentPreview(ma) = ContentPreview(mb) /\ ma.createTime # mb.createTime)
                   => FilePath(ma) # FilePath(mb)

\* C9 as stated: the content of a resource file that exists is never
\* written again
C9_WriteOnce ==
    [][\A p \in DOMAIN files : p \in ResourcePaths => files'[p] = files[p]]_vars

\* C10 as stated: when saveMemoToFile has returned for a record, the
\* document at the record's path holds the complete rendered body
C10_FullBody ==
    \A i \in RunIds :
        LET r == runs[i]
        IN  (/\ Latest(i) /\ r.solo /\ r.syncCount >= 1
             /\ r.pc = "done" \/ (r.pc = "dirExists" /\ r.after = "year"))
            => /\ PathOf(r, r.k - 1) \in DOMAIN files
               /\ files[PathOf(r, r.k - 1)] = r.documentContent

RECURSIVE Split(_, _)
\* s.split(sep): the segments of a string
Split(s, sep) ==
    IF \A n \in 1..Len(s) : s[n] # sep THEN <<s>>
    ELSE LET n == CHOOSE m \in 1..Len(s) : s[m] = sep /\ \A l \in 1..(m - 1) : s[l] # sep
         IN  <<SubSeq(s, 1, n - 1)>> \o Split(SubSeq(s, n + 1, Len(s)), sep)

RECURSIVE Walk(_, _)
\* the path reached from the directory dir along the segments of a
\* relative path: '..' leaves a directory, a name enters it
Walk(dir, segments) ==
    IF segments = <<>> THEN dir
    ELSE IF Head(segments) = <<".", ".">>
         THEN Walk(SubSeq(dir, 1, Len(dir) - 1), Tail(segments))
         ELSE IF Head(segments) = <<>> THEN Walk(dir, Tail(segments))
         ELSE Walk(dir \o <<Head(segments)>>, Tail(segments))

\* a relative path resolved from the directory of the document at docPath
Resolve(docPath, relativePath) ==
    Walk(SubSeq(docPath, 1, Len(docPath) - 1), Split(relativePath, "/"))

\* the paths of the documents
DocumentPaths == {Derived[id].filePath : id \in DOMAIN Derived}

\* the relative path that the link of a chunk of a document carries, as
\* saveMemoToFile computes it (lines 301 and 315)
LinkTarget(chunk) ==
    getRelativePath(Derived[chunk[2]].filePath, Derived[chunk[2]].localPath[chunk[1]][chunk[3]])

\* the links of the documents of the store resolved from their documents
ResolvedLinks ==
    UNION {{Resolve(p, LinkTarget(files[p][n])) :
              n \in {m \in 1..Len(files[p]) : files[p][m][1] \in {"image", "file"}}} :
           p \in DOMAIN files \cap DocumentPaths}

\* C12: every image or attachment link of a document of the store, resolved
\* from the directory of the document, is the path of a resource file that
\* exists in the store.
C12_LinksResolve == ResolvedLinks \subseteq (DOMAIN files \cap ResourcePaths)

\* C12: a document with a link is in the store, and a download of the run
\* that wrote it has failed
C12_Witness ==
    /\ ResolvedLinks # {}
    /\ \E i \in RunIds : runs[i].nulls # {} /\ runs[i].syncCount >= 1

RECURSIVE LeadingUps(_)
\* the number of leading '..' segments
LeadingUps(segments) ==
    IF segments # <<>> /\ Head(segments) = <<".", ".">>
    THEN 1 + LeadingUps(Tail(segments)) ELSE 0

\* the length of the longest common leading prefix of two paths
CommonLength(a, b) ==
    CHOOSE n \in 0..Len(a) :
        /\ n <= Len(b) /\ SubSeq(a, 1, n) = SubSeq(b, 1, n)
        /\ \A m \in (n + 1)..Len(a) : m > Len(b) \/ SubSeq(a, 1, m) # SubSeq(b, 1, m)

\* C13: what getRelativePath returned, resolved from the directory of the
\* document, is the target; its leading '..' segments are as many as the
\* depth of the document's directory less the length of the longest common
\* leading prefix of that directory and the target, and no others follow;
\* for a target in the 'resources' directory next to the document it is
\* 'resources/<file>'.
C13_RelativePath ==
    call.pc = "returned" =>
        LET dir == SubSeq(call.fromPath, 1, Len(call.fromPath) - 1)
            segments == Split(call.relativePath, "/")
            ups == LeadingUps(segments)
        IN  /\ Resolve(call.fromPath, call.relativePath) = call.toPath
            /\ ups = Len(dir) - CommonLength(dir, call.toPath)
            /\ \A n \in (ups + 1)..Len(segments) : segments[n] # <<".", ".">>
            /\ (Len(call.toPath) = Len(dir) + 2 /\ ResourceDir(dir) = SubSeq(call.toPath, 1, Len(dir) + 1))
               => call.relativePath
                    = Join(<<ResourceDir(<<>>)[1], call.toPath[Len(call.toPath)]>>, <<"/">>)

\* C13: getRelativePath has returned a path that climbs two directories and
\* descends into another
C13_Witness ==
    /\ call.pc = "returned"
    /\ Len(call.fromPath) = 3 /\ Len(call.toPath) = 2
    /\ call.fromPath[1] # call.toPath[1]
    /\ LeadingUps(Split(call.relativePath, "/")) = 2

\* s holds sub as a run of consecutive characters
Contains(s, sub) == \E n \in 1..(Len(s) - Len(sub) + 1) : SubSeq(s, n, n + Len(sub) - 1) = sub

\* a run has completed over the record of the scenario
ScenarioDone ==
    \E i \in RunIds :
        runs[i].pc = "done" /\ \E n \in 1..Len(runs[i].memos) : runs[i].memos[n] = "D"

\* {root}/2024/03
ScenarioDir == <<syncDirectory, <<"2", "0", "2", "4">>, <<"0", "3">>>>

\* 'Meeting notes _work_ (2024-03-15 10-30).md'
ScenarioName ==
    <<"M", "e", "e", "t", "i", "n", "g", " ", "n", "o", "t", "e", "s", " ",
      "_", "w", "o", "r", "k", "_", " ", "(", "2", "0", "2", "4", "-", "0",
      "3", "-", "1", "5", " ", "1", "0", "-", "3", "0", ")", ".", "m", "d">>

\* 'Meeting notes #work (2024-03-15 10-30).md'
StatedName ==
    <<"M", "e", "e", "t", "i", "n", "g", " ", "n", "o", "t", "e", "s", " ",
      "#", "w", "o", "r", "k", " ", "(", "2", "0", "2", "4", "-", "0", "3",
      "-", "1", "5", " ", "1", "0", "-", "3", "0", ")", ".", "m", "d">>

\* 'Meeting notes #work', then the blank line before the images
ScenarioBody ==
    <<"M", "e", "e", "t", "i", "n", "g", " ", "n", "o", "t", "e", "s", " ",
      "#", "w", "o", "r", "k",
      "\n\n">>

\* the image reference to resources/9_photo.jpg
ScenarioImage ==
    <<"![", "p", "h", "o", "t", "o", ".", "j", "p", "g", "](",
      "r", "e", "s", "o", "u", "r", "c", "e", "s", "/", "9", "_", "p", "h",
      "o", "t", "o", ".", "j", "p", "g",
      ")\n">>

\* the lines of the metadata block with the tag and with the id
ScenarioTags == <<"> - Tags: [", "w", "o", "r", "k", "]\n">>
ScenarioId == <<"> - ID: ", "m", "e", "m", "o", "s", "/", "4", "\n">>

\* the text from the last rule of a document on: its metadata block
LastBlock(text) ==
    LET n == CHOOSE m \in 1..Len(text) :
                 text[m] = "\n\n---\n" /\ \A l \in (m + 1)..Len(text) : text[l] # "\n\n---\n"
    IN  SubSeq(text, n, Len(text))

\* C14: after a run over the record of the scenario (local time UTC) the
\* document is at {root}/2024/03/Meeting notes _work_ (2024-03-15 10-30).md,
\* the '#' of the content replaced by '_' in the name; its body starts with
\* 'Meeting notes #work', holds the image reference to
\* resources/9_photo.jpg, and ends with the metadata block, which lists the
\* tag work and the id of the record.
C14_Scenario ==
    ScenarioDone =>
        LET path == ScenarioDir \o <<ScenarioName>>
        IN  /\ path \in DOMAIN files
            /\ LET text == DocumentText(files[path])
               IN  /\ SubSeq(text, 1, Len(ScenarioBody)) = ScenarioBody
                   /\ Contains(text, ScenarioImage)
                   /\ \E m \in 1..Len(text) : text[m] = "\n\n---\n"
                   /\ Contains(LastBlock(text), ScenarioTags)
                   /\ Contains(LastBlock(text), ScenarioId)
                   /\ ~Contains(LastBlock(text), <<"](">>)

\* C14: a run over the record of the scenario has completed and has stored
\* the image
C14_Witness ==
    /\ ScenarioDone
    /\ ScenarioDir \o <<ResourceDir(<<>>)[1], LocalFilename(ResScenario)>> \in DOMAIN files

\* C14 as stated: after the run the document is at
\* {root}/2024/03/Meeting notes #work (2024-03-15 10-30).md
C14_StatedPath == ScenarioDone => ScenarioDir \o <<StatedName>> \in DOMAIN files

\* C15 as stated: the count a run reports with its success is the number of
\* documents the run created or overwrote
C15_ReportedCount ==
    \A i \in RunIds :
        runs[i].report = "success" => runs[i].syncCount = runs[i].written

\* the rest of C15: a run reports success only when it has passed every
\* fetched record, a failed run is not done, an ended run has reported
C15_ReportShape ==
    \A i \in RunIds :
        LET r == runs[i]
        IN  /\ r.report = "success" <=> r.pc = "done"
            /\ r.report = "failed" <=> r.pc = "failed"
            /\ r.pc = "done" => r.k = Len(r.memos) + 1 /\ r.syncCount = Len(r.memos)

\* C16: syncMemos has no run-state flag: while a run is at an await, the
\* next invocation can start at once.
C16_NotGuarded ==
    \A i \in RunIds \ {MaxRuns} :
        (Active(runs[i]) /\ runs[i + 1].pc = "idle") => ENABLED Start(i + 1)

\* C16: two runs are between their start and their end at the same time
C16_Witness ==
    \E i, j \in RunIds :
        /\ i # j
        /\ runs[i].pc = "fetch"
        /\ Active(runs[j]) /\ Fetched(runs[j])

\* C17 as stated: between a run's existence check of a path and its
\* following mkdir, download-and-writeBinary or create on that path, no
\* other run creates the path: a run about to mkdir, write a resource or
\* create a document still finds the path absent.
C17_NoRace ==
    \A i \in RunIds :
        LET r == runs[i]
        IN  /\ r.pc = "dirMkdir" => DirOf(r) \notin dirs
            /\ r.pc \in {"resFetch", "resWrite"} => localPath(r) \notin DOMAIN files
            /\ r.pc = "docCreate" => filePath(r) \notin DOMAIN files

\* the run is in the loop of syncMemos (lines 386-390), inside saveMemoToFile
PerMemo(r) == Active(r) /\ Fetched(r)

\* the resources of the record the run is at: the images, then the others
CountOf(r, kind) == Len(Derived[r.memos[r.k]].listed[kind])
Total(r) == CountOf(r, "image") + CountOf(r, "file")

\* where the run is inside saveMemoToFile: 0 before the first download, n
\* during the download of the n-th resource (images first, each kind in
\* list order), Total + 1 from the check of the document path on
Rank(r) ==
    IF r.pc \in {"docExists", "docModify", "docCreate"} THEN Total(r) + 1
    ELSE IF r.phase = "none" THEN 0
    ELSE IF r.phase = "image" THEN r.j
    ELSE CountOf(r, "image") + r.j

\* the n-th resource in that order, as <<kind, index in its list>>
Nth(r, n) ==
    IF n <= CountOf(r, "image") THEN <<"image", n>>
    ELSE <<"file", n - CountOf(r, "image")>>

\* the place of the link of the n-th resource in the document being built,
\* 0 if there is none
LinkAt(r, n) ==
    LET chunk == <<Nth(r, n)[1], r.memos[r.k], Nth(r, n)[2]>>
        at == {m \in DOMAIN r.documentContent : r.documentContent[m] = chunk}
    IN  IF at = {} THEN 0 ELSE CHOOSE m \in at : TRUE

\* downloadResource has returned for the n-th resource: its link is in the
\* document being built, or it returned null
Processed(r, n) ==
    LinkAt(r, n) > 0 \/ <<r.k, Nth(r, n)[1], Nth(r, n)[2]>> \in r.nulls

\* a run at rank q has exactly the downloads before q behind it, their
\* links in that order, and one saveMemoToFile returned per earlier record
InOrder(r) ==
    /\ r.k \in 1..Len(r.memos)
    /\ r.syncCount = r.k - 1
    /\ \A n \in 1..Total(r) : Processed(r, n) <=> n < Rank(r)
    /\ \A n, m \in 1..Total(r) :
          (n < m /\ LinkAt(r, n) > 0 /\ LinkAt(r, m) > 0) => LinkAt(r, n) < LinkAt(r, m)

\* one step of a run, from r to r2
StepOrder(r, r2) ==
    /\ PerMemo(r2) => InOrder(r2)
    /\ (PerMemo(r) /\ PerMemo(r2)) =>
          /\ r2.memos = r.memos
          /\ \/ r2.k = r.k /\ Rank(r2) \in {Rank(r), Rank(r) + 1}
             \/ r2.k = r.k + 1 /\ Rank(r) = Total(r) + 1 /\ Rank(r2) = 0
    /\ (~PerMemo(r) /\ PerMemo(r2)) => (r2.k = 1 /\ Rank(r2) = 0)
    /\ (PerMemo(r) /\ r2.pc = "done") => (r.k = Len(r.memos) /\ Rank(r) = Total(r) + 1)

Range(s) == {s[n] : n \in 1..Len(s)}

\* C19: fetchAllMemos returns the records that arrived first, as many as
\* the limit allows, in descending order of creation time: the returned
\* list is a permutation of the concatenated pages cut at the limit, and,
\* when no request failed and the remote did not change, of the first
\* min(M, L) records the remote serves.
C19_TruncateThenSort ==
    \A i \in RunIds :
        LET r == runs[i]
            kept == Slice0(r.allMemos, settings.syncLimit)
        IN  Fetched(r) =>
              /\ Len(r.memos) = Len(kept)
              /\ Range(r.memos) = Range(kept)
              /\ \A n \in 1..(Len(r.memos) - 1) : TimeOf(r, n) >= TimeOf(r, n + 1)
              /\ r.stable => kept = Slice0(r.remote0.memos, settings.syncLimit)

\* C19: a fetch received more records than the limit and dropped a record
\* created later than one it kept
C19_Witness ==
    \E i \in RunIds :
        LET r == runs[i]
        IN  /\ Fetched(r)
            /\ Len(r.allMemos) > Len(r.memos)
            /\ \E a \in Range(r.memos), b \in Range(r.allMemos) \ Range(r.memos) :
                  getTime(MemoRecord(b).createTime) > getTime(MemoRecord(a).createTime)

\* the file at path p holds the document rendered from record id
DocumentOf(p, id) ==
    /\ p \in DOMAIN files \cap DocumentPaths
    /\ Len(files[p]) > 0
    /\ files[p][1] = <<"content", id>>

\* record id is gone from the remote, and no run that fetched it is still
\* at work
Disappeared(id) ==
    /\ id \notin Range(remote.memos)
    /\ \A i \in RunIds :
          Active(runs[i]) => id \notin Range(runs[i].allMemos) \cup Range(runs[i].memos)

\* C20 as stated: no step removes a path of the store, and the document of
\* a record that disappeared from the remote keeps its content.
C20_NeverDeletes ==
    [][/\ DOMAIN files \subseteq DOMAIN files'
       /\ dirs \subseteq dirs'
       /\ \A id \in MemoIds : \A p \in DOMAIN files :
             (DocumentOf(p, id) /\ Disappeared(id)) => files'[p] = files[p]]_vars

\* the resource behind a link chunk of a document
LinkedResource(chunk) == Derived[chunk[2]].listed[chunk[1]][chunk[3]]

\* the local path the link of a chunk names
LinkedPath(chunk) == Derived[chunk[2]].localPath[chunk[1]][chunk[3]]

\* the link chunks of the documents of the store
StoredLinks ==
    UNION {{files[p][n] : n \in {m \in DOMAIN files[p] : files[p][m][1] \in {"image", "file"}}} :
             p \in DOMAIN files \cap DocumentPaths}

\* C21 as stated: resources with distinct ids have distinct local paths, so
\* every link of every document leads to a file that holds the bytes the
\* remote served for the link's own resource.
C21_OwnFile ==
    \A chunk \in StoredLinks :
        /\ LinkedPath(chunk) \in DOMAIN files
        /\ files[LinkedPath(chunk)][1] = ResourceId(LinkedResource(chunk))

\* the place of a kind of chunk in a document: the content, the blank line
\* before the images, the image references, the heading 'Attachments', the
\* links of the other resources, the metadata block
PartOrder(kind) ==
    CASE kind = "content" -> 1
      [] kind = "images" -> 2
      [] kind = "image" -> 3
      [] kind = "attachments" -> 4
      [] kind = "file" -> 5
      [] kind = "properties" -> 6

\* the places of the chunks of a kind in a document
PartsOf(doc, kind) == {n \in DOMAIN doc : doc[n][1] = kind}

\* doc is built as saveMemoToFile builds the document of record id
Structured(doc, id) ==
    /\ \A n \in DOMAIN doc : doc[n][2] = id
    /\ doc[1] = <<"content", id>>
    /\ doc[Len(doc)] = <<"properties", id>>
    /\ PartsOf(doc, "content") = {1}
    /\ PartsOf(doc, "properties") = {Len(doc)}
    /\ \A n \in 1..(Len(doc) - 1) : PartOrder(doc[n][1]) <= PartOrder(doc[n + 1][1])
    /\ Cardinality(PartsOf(doc, "images")) =
          (IF Len(Derived[id].listed["image"]) > 0 THEN 1 ELSE 0)
    /\ Cardinality(PartsOf(doc, "attachments")) =
          (IF Len(Derived[id].listed["file"]) > 0 THEN 1 ELSE 0)
    /\ \A kind \in {"image", "file"} :
          \A n, m \in PartsOf(doc, kind) : n < m => doc[n][3] < doc[m][3]

\* every resource of record id is in exactly one of the two lists
Partitioned(id) ==
    LET memo == MemoRecord(id)
    IN  /\ Len(Derived[id].listed["image"]) + Len(Derived[id].listed["file"])
             = Len(memo.resources)
        /\ \A n \in DOMAIN memo.resources :
              LET res == memo.resources[n]
                  in(kind) == \E j \in DOMAIN Derived[id].listed[kind] :
                                 Derived[id].listed[kind][j] = res
              IN  /\ in("image") # in("file")
                  /\ in("image") <=> isImageFile(res.filename)

\* C22: every document of the store, and every document a run is about to
\* write, has the content first, then the image references, then the
\* heading 'Attachments' with the links of the other resources, then the
\* metadata block as its last part; every resource of the record is in
\* exactly one of the two lists, and has a link in the document a run is
\* about to write exactly when downloadResource did not return null for it.
C22_Structure ==
    /\ \A p \in DOMAIN files \cap DocumentPaths :
          Len(files[p]) > 0 => Structured(files[p], files[p][1][2])
    /\ \A i \in RunIds :
          LET r == runs[i]
          IN  r.pc \in {"docExists", "docModify", "docCreate"} =>
                /\ Structured(r.documentContent, r.memos[r.k])
                /\ Partitioned(r.memos[r.k])
                /\ \A n \in 1..Total(r) :
                      LinkAt(r, n) > 0 <=>
                        <<r.k, Nth(r, n)[1], Nth(r, n)[2]>> \notin r.nulls

\* C22: the store holds a document with an image reference and the heading
\* 'Attachments' without a link under it: the download of the attachment
\* returned null
C22_Witness ==
    \E p \in DOMAIN files \cap DocumentPaths :
        /\ PartsOf(files[p], "image") # {}
        /\ PartsOf(files[p], "attachments") # {}
        /\ PartsOf(files[p], "file") = {}

\* C23: the interval timer is the one onload created: there is a timer
\* exactly when the cadence was 'auto' when onload ran, setInterval was called
\* at most once, the period is the interval onload read, and the timer has
\* fired at every multiple of that period since, whatever the cadence and
\* the interval of the settings are by now.
C23_TimerAtLoad ==
    LET period == auto.atLoad.autoSyncInterval * 60 * 1000
    IN  /\ auto.created <= 1
        /\ auto.created = 1 <=> (auto.loaded /\ auto.atLoad.syncFrequency = "auto")
        /\ auto.handle # 0 <=> auto.created = 1
        /\ auto.handle # 0 =>
              /\ auto.handle = period
              /\ auto.due = (auto.invoked + 1) * period
              /\ auto.now <= auto.due
        /\ auto.handle = 0 => auto.invoked = 0

\* C23: the plugin was loaded with cadence 'auto'; the settings now say
\* 'manual' and another interval, and the timer has fired after that
C23_Witness ==
    /\ auto.atLoad.syncFrequency = "auto"
    /\ auto.syncFrequency = "manual"
    /\ auto.autoSyncInterval # auto.atLoad.autoSyncInterval
    /\ auto.invoked >= 2
    /\ auto.now = auto.due

\* C11 as stated: every started run ends, done or failed
C11_Terminates ==
    \A i \in RunIds : (runs[i].pc # "idle") ~> (runs[i].pc \in {"done", "failed"})

=============================================================================
